---- MODULE Spec2Model ----
(***************************************************************************)
(* Model of python/hph/nuki_mqtt_config.py: the NukiConfigClient object    *)
(* (its three fields response, waiting_for_topic, ip_address), the paho    *)
(* network thread that runs on_message, and the calling thread that runs   *)
(* update_config / wait_for_ip / fetch_coredump / main.                    *)
(*                                                                         *)
(* The calling thread advances one source statement per step (pc names the *)
(* statement about to run); on_message runs on the network thread and is   *)
(* split where it reads waiting_for_topic (line 106) and where it writes   *)
(* response (lines 112/114), so every interleaving of the two threads that *)
(* the interpreter can produce is a behaviour of the model.                *)
(*                                                                         *)
(* main's parsing of args.settings into config_data and                    *)
(* python/hph/convert_coredump.py are sequential code without the client:  *)
(* each has its own variables and its own specification (CoerceSpec,       *)
(* ConvertSpec) over inputs drawn from bounded sets.                       *)
(***************************************************************************)
EXTENDS Integers, Naturals, Sequences, FiniteSets, TLC

(***************************************************************************)
(* Bounds of the model.                                                    *)
(***************************************************************************)
\* calls a library user makes on one client
MaxCalls == 2
\* the timeout argument, in units of the 0.1 s polling sleep
TimeoutTicks == 1
\* key=value arguments on the command line
MaxSettings == 2
\* characters of a value given on the command line
MaxValueLen == 4
\* lines of the coredump file after its two header lines
MaxDataLines == 2

(***************************************************************************)
(* Topics are sequences of their '/'-separated levels.                     *)
(***************************************************************************)
BASE_TOPIC == <<"nuki", "hub">>
TOPIC_ACTION_SUFFIX == <<"configuration", "action">>
TOPIC_RESULT_SUFFIX == <<"configuration", "commandResult">>
IP_SUFFIX == <<"info", "nukiHubIp">>

\* str.endswith("/" + suffix): the suffix levels, after at least one level
EndsWith(topic, suffix) ==
    /\ Len(topic) > Len(suffix)
    /\ SubSeq(topic, Len(topic) - Len(suffix) + 1, Len(topic)) = suffix

ValidTargets == {"hub", "lock", "opener"}
\* the targets a library user passes ("other": any string that is none of the three)
ApiTargets == {"hub", "lock", "other"}

\* lines 133-138 with the lock's and the opener's level left out
TopicBase_NoDeviceLevel(target) ==
    CASE target = "hub" -> BASE_TOPIC
      [] target = "lock" -> BASE_TOPIC
      [] target = "opener" -> BASE_TOPIC

\* update_config, lines 133-138
TopicBase(target) ==
    CASE target = "hub" -> BASE_TOPIC
      [] target = "lock" -> BASE_TOPIC \o <<"lock">>
      [] target = "opener" -> BASE_TOPIC \o <<"opener">>

ActionTopic(target) == TopicBase(target) \o TOPIC_ACTION_SUFFIX
ResultTopic(target) == TopicBase(target) \o TOPIC_RESULT_SUFFIX
IpTopic == BASE_TOPIC \o IP_SUFFIX

ResultTopics == {ResultTopic(t) : t \in ValidTargets}
ActionTopics == {ActionTopic(t) : t \in ValidTargets}
Topics == ResultTopics \cup {IpTopic}

(***************************************************************************)
(* Values held by the fields: None, a str, or what json.loads returned.    *)
(***************************************************************************)
None == [kind |-> "None", text |-> ""]
Str(s) == [kind |-> "str", text |-> s]
NoTopic == <<>>
NoPayload == "<none>"

SENTINEL == "--"
\* payloads the device publishes on a result topic / on the IP topic
ResultPayloads == {SENTINEL, "null", "{}", "ok"}
IpPayloads == {"", "10.0.0.7"}
PayloadsFor(topic) == IF topic = IpTopic THEN IpPayloads ELSE ResultPayloads

\* json.loads on the payloads above: the parsed value, or JSONDecodeError
JsonLoads(payload) ==
    CASE payload = "null" -> [ok |-> TRUE, value |-> None]
      [] payload = "{}" -> [ok |-> TRUE, value |-> [kind |-> "dict", text |-> "{}"]]
      [] OTHER -> [ok |-> FALSE, value |-> None]

\* on_message lines 111-114: try json.loads, except JSONDecodeError keep the str
ParseResponse(payload) ==
    IF JsonLoads(payload).ok THEN JsonLoads(payload).value ELSE Str(payload)

\* Python truthiness of an optional str ("if not ip", line 183)
Truthy(v) == v # None /\ v.text # ""

(***************************************************************************)
(* Command-line texts are sequences of pieces: a piece is one character,   *)
(* or a whole setting name (which holds no '=', digit, sign or blank).     *)
(***************************************************************************)
LOCK_CONFIG_KEYS_basic ==
    {"name", "latitude", "longitude", "autoUnlatch", "pairingEnabled",
     "buttonEnabled", "ledEnabled", "ledBrightness", "timeZoneOffset",
     "dstMode", "fobAction1", "fobAction2", "fobAction3", "singleLock",
     "advertisingMode", "timeZone"}
LOCK_CONFIG_KEYS_advanced ==
    {"unlockedPositionOffsetDegrees", "lockedPositionOffsetDegrees",
     "singleLockedPositionOffsetDegrees", "unlockedToLockedTransitionOffsetDegrees",
     "lockNgoTimeout", "singleButtonPressAction", "doubleButtonPressAction",
     "detachedCylinder", "batteryType", "automaticBatteryTypeDetection",
     "unlatchDuration", "autoLockTimeOut", "autoUnLockDisabled",
     "nightModeEnabled", "nightModeStartTime", "nightModeEndTime",
     "nightModeAutoLockEnabled", "nightModeAutoUnlockDisabled",
     "nightModeImmediateLockOnStart", "autoLockEnabled",
     "immediateAutoLockEnabled", "autoUpdateEnabled", "rebootNuki",
     "motorSpeed", "enableSlowSpeedDuringNightMode", "recalibrateNuki"}
OPENER_CONFIG_KEYS_basic ==
    {"name", "latitude", "longitude", "pairingEnabled", "buttonEnabled",
     "ledFlashEnabled", "timeZoneOffset", "dstMode", "fobAction1",
     "fobAction2", "fobAction3", "operatingMode", "advertisingMode", "timeZone"}
OPENER_CONFIG_KEYS_advanced ==
    {"intercomID", "busModeSwitch", "shortCircuitDuration",
     "electricStrikeDelay", "randomElectricStrikeDelay",
     "electricStrikeDuration", "disableRtoAfterRing", "rtoTimeout",
     "doorbellSuppression", "doorbellSuppressionDuration", "soundRing",
     "soundOpen", "soundRto", "soundCm", "soundConfirmation", "soundLevel",
     "singleButtonPressAction", "doubleButtonPressAction", "batteryType",
     "automaticBatteryTypeDetection", "rebootNuki", "recalibrateNuki"}
HUB_CONFIG_KEYS ==
    {"dhcpena", "ipaddr", "ipsub", "ipgtw", "dnssrv", "hostname", "wifiSSID", "wifiPass",
     "mqttlog", "mqtt_lock_path",
     "authmaxentry", "authInfoEna", "authPerEntry", "cred_user", "cred_password",
     "kpmaxentry", "kpInfoEnabled", "kpPerEntry", "kpPubCode",
     "tcmaxentry", "tcPerEntry", "tcInfoEnabled",
     "pubAuth", "cnfInfoEnabled",
     "lockStInterval", "configInterval", "batInterval", "kpInterval",
     "nrRetry", "rtryDelay", "hybridTimer", "rssipb", "nettmout",
     "regAsApp", "regOpnAsApp", "bleTxPwr", "checkupdates", "openercont",
     "webserver_enabled"}

\* main, lines 277-284: valid_keys for args.target
ValidKeys(t) ==
    CASE t = "lock" -> LOCK_CONFIG_KEYS_basic \cup LOCK_CONFIG_KEYS_advanced
      [] t = "opener" -> OPENER_CONFIG_KEYS_basic \cup OPENER_CONFIG_KEYS_advanced
      [] t = "hub" -> HUB_CONFIG_KEYS
      [] OTHER -> {}

\* key in valid_keys: the key is one of the names, whole
InSchema(key, names) == Len(key) = 1 /\ key[1] \in names

\* line 293 without the exemption of the hub
KeyWarned_AnyTarget(t, key) == ~InSchema(key, ValidKeys(t))

\* lines 293-295: the warning is printed for lock and opener only
KeyWarned(t, key) == t # "hub" /\ ~InSchema(key, ValidKeys(t))

\* position of the first piece c of text at or after position i (0: none)
RECURSIVE Find(_, _, _)
Find(text, c, i) ==
    IF i > Len(text) THEN 0
    ELSE IF text[i] = c THEN i
    ELSE Find(text, c, i + 1)

\* position of the last piece c of text at or before position i (0: none)
RECURSIVE FindLast(_, _, _)
FindLast(text, c, i) ==
    IF i < 1 THEN 0
    ELSE IF text[i] = c THEN i
    ELSE FindLast(text, c, i - 1)

\* line 289: "=" in setting
Contains(text, c) == Find(text, c, 1) # 0

\* setting.rsplit("=", 1): the split at the last '='
SplitFirst_AtLast(text, c) ==
    LET i == FindLast(text, c, Len(text))
    IN [key |-> SubSeq(text, 1, i - 1), value |-> SubSeq(text, i + 1, Len(text))]

\* line 290: key, value = setting.split("=", 1)
SplitFirst(text, c) ==
    LET i == Find(text, c, 1)
    IN [key |-> SubSeq(text, 1, i - 1), value |-> SubSeq(text, i + 1, Len(text))]

Digits == {"0", "1", "2", "3", "4", "5", "6", "7", "8", "9"}
Signs == {"+", "-"}
Whitespace == {" ", "\t", "\n", "\r", "\f"}

DigitValue(c) ==
    CASE c = "0" -> 0 [] c = "1" -> 1 [] c = "2" -> 2 [] c = "3" -> 3
      [] c = "4" -> 4 [] c = "5" -> 5 [] c = "6" -> 6 [] c = "7" -> 7
      [] c = "8" -> 8 [] c = "9" -> 9

\* int(): blanks around the number are skipped
RECURSIVE LStrip(_)
LStrip(text) ==
    IF text # <<>> /\ Head(text) \in Whitespace THEN LStrip(Tail(text)) ELSE text

RECURSIVE RStrip(_)
RStrip(text) ==
    IF text # <<>> /\ text[Len(text)] \in Whitespace
      THEN RStrip(SubSeq(text, 1, Len(text) - 1))
      ELSE text

Strip(text) == RStrip(LStrip(text))

\* int(): one optional sign before the digits
Unsigned(text) ==
    IF text # <<>> /\ Head(text) \in Signs THEN Tail(text) ELSE text

\* int(): decimal digits, single underscores allowed between two digits
IsIntBody(body) ==
    /\ Len(body) >= 1
    /\ \A i \in 1..Len(body) :
          \/ body[i] \in Digits
          \/ /\ body[i] = "_"
             /\ 1 < i /\ i < Len(body)
             /\ body[i - 1] \in Digits /\ body[i + 1] \in Digits

RECURSIVE DigitsValue(_, _)
DigitsValue(body, acc) ==
    IF body = <<>> THEN acc
    ELSE IF Head(body) = "_" THEN DigitsValue(Tail(body), acc)
    ELSE DigitsValue(Tail(body), 10 * acc + DigitValue(Head(body)))

\* line 298 accepting digits only
IntOk_DigitsOnly(text) ==
    text # <<>> /\ \A i \in 1..Len(text) : text[i] \in Digits

\* line 298: int(value) does not raise ValueError
IntOk(text) == IsIntBody(Unsigned(Strip(text)))

\* line 298: the value of int(value)
IntOf(text) ==
    LET t == Strip(text)
        magnitude == DigitsValue(Unsigned(t), 0)
    IN IF t # <<>> /\ Head(t) = "-" THEN 0 - magnitude ELSE magnitude

\* str.lower() on the letters of the texts used here
LowerPiece(c) ==
    CASE c = "T" -> "t" [] c = "R" -> "r" [] c = "U" -> "u" [] c = "E" -> "e"
      [] c = "F" -> "f" [] c = "A" -> "a" [] c = "L" -> "l" [] c = "S" -> "s"
      [] OTHER -> c

Lower(text) == [i \in 1..Len(text) |-> LowerPiece(text[i])]

\* the values of config_data: a Python int, bool or str
IntValue(n) == [type |-> "int", num |-> n, flag |-> FALSE, text |-> <<>>]
BoolValue(b) == [type |-> "bool", num |-> 0, flag |-> b, text |-> <<>>]
StrValue(t) == [type |-> "str", num |-> 0, flag |-> FALSE, text |-> t]

\* lines 297-306: int if int() accepts the text, else bool, else the text
Coerce(value) ==
    IF IntOk(value) THEN IntValue(IntOf(value))
    ELSE IF Lower(value) = <<"t", "r", "u", "e">> THEN BoolValue(TRUE)
    ELSE IF Lower(value) = <<"f", "a", "l", "s", "e">> THEN BoolValue(FALSE)
    ELSE StrValue(value)

(***************************************************************************)
(* The web server's replies to fetch_coredump's GET, and its output file.  *)
(***************************************************************************)
HttpOutcomes == {"Saved", "NotFound", "AuthFailed", "HTTPError", "Error"}

\* status codes the web server answers with: 200 opens the response, any
\* other makes urlopen raise HTTPError
StatusCodes == {200, 401, 404, 500}
\* no status line was received: urlopen raises URLError (refused, unreachable)
NoStatus == 0
\* response bodies, as byte sequences
Bodies == {<<>>, <<222, 173>>}
\* a reply: its status, its body, and whether response.read() got the whole
\* body (if not, read() raises, e.g. http.client.IncompleteRead)
HttpReplies ==
    [code : StatusCodes \cup {NoStatus}, body : Bodies, complete : BOOLEAN]

NoResult == [kind |-> "none", code |-> NoStatus]
NoUrl == <<>>
NoReply == [code |-> NoStatus, body |-> <<>>, complete |-> FALSE]
Unwritten == [written |-> FALSE, data |-> <<>>]

\* line 188: url = f"http://{ip}/get?page=coredump"
Url(ip) == <<"http://", ip, "/get?page=coredump">>

VARIABLES
    flow,               \* who drives the client: main's config path, main's coredump path, or a library user
    pc,                 \* statement the calling thread is about to run
    target,             \* update_config's target argument
    response,           \* self.response
    waiting_for_topic,  \* self.waiting_for_topic
    ip_address,         \* self.ip_address
    connected,          \* the network loop is running (between loop_start and loop_stop)
    subs,               \* topics subscribed and not unsubscribed
    subCount,           \* subscribe calls per topic, made by the current call
    unsubCount,         \* unsubscribe calls per topic, made by the current call
    pubCount,           \* publish calls per action topic, made by the current call
    lingering,          \* topics unsubscribed whose messages may still be on their way (no UNSUBACK yet)
    cbPc,               \* on_message: "idle", or "store" between line 109 and line 112
    msg,                \* on_message's msg argument (kept after it returns)
    elapsed,            \* time.time() - start_time, in polling sleeps, saturating above the timeout
    calls,              \* calls made on the client so far
    retval,             \* what the current call returned (None until it returns)
    timedOut,           \* the current call took its timeout branch
    raised,             \* exception that ended the last call or the invocation
    interruptedAt,      \* pc at which KeyboardInterrupt arrived
    firstPayload,       \* first payload on_message stored between the current update_config call's reset and the end of its polling loop
    firstIp,            \* first payload received on the IP topic during the current wait_for_ip call
    stored,             \* on_message wrote self.response since the current update_config call reset it
    prePublish,         \* no write of self.response was made since the publish (line 154) of a call that has not returned
    fetchResult,        \* outcome of fetch_coredump: what it printed, and the status it printed with it
    httpUrl,            \* URL of the GET fetch_coredump issued (NoUrl before)
    httpReply,          \* what the device's web server answered to the GET
    outputFile,         \* the file named by --output: whether fetch_coredump wrote it, and the bytes
    cliTarget,          \* main: args.target
    settings,           \* main: args.settings
    settingIdx,         \* main: position of the for loop at line 288 in args.settings
    config_data,        \* main: config_data, a map from key texts to values
    warnings,           \* main: the lines the loop printed
    parsePc,            \* main: where it is between line 286 and line 314
    lines,              \* convert_hex_to_bin: lines, as read from the input file
    hex_data,           \* convert_hex_to_bin: hex_data
    binFile,            \* convert_hex_to_bin: the output file: whether it exists, and its bytes
    convMsg,            \* convert_hex_to_bin: what it printed last
    convPc              \* convert_hex_to_bin: statement about to run

vars == <<flow, pc, target, response, waiting_for_topic, ip_address, connected,
          subs, lingering, subCount, unsubCount, pubCount, cbPc, msg, elapsed,
          calls, retval, timedOut, raised, interruptedAt, firstPayload, firstIp,
          stored, prePublish, fetchResult, httpUrl, httpReply, outputFile,
          cliTarget, settings, settingIdx, config_data, warnings, parsePc,
          lines, hex_data, binFile, convMsg, convPc>>

fields == <<response, waiting_for_topic, ip_address>>
transport == <<subs, lingering, subCount, unsubCount, pubCount>>
network == <<cbPc, msg>>
history == <<firstPayload, firstIp, stored, prePublish>>
callState == <<target, elapsed, calls, retval, timedOut, raised>>
http == <<httpUrl, httpReply, outputFile>>
\* the variables of NukiConfigClient and of the thread that calls it
client == <<flow, pc, fields, connected, transport, network, callState,
            interruptedAt, history, fetchResult, http>>
\* the variables of main's parsing of args.settings
coercer == <<cliTarget, settings, settingIdx, config_data, warnings, parsePc>>
\* the variables of convert_coredump.py
converter == <<lines, hex_data, binFile, convMsg, convPc>>

Flows == {"config", "coredump", "api"}

\* pcs of update_config's polling loop (lines 156-161)
UpdatePolling == {"u_time", "u_loop", "u_check", "u_sleep"}
\* pcs of update_config between its first and last statement
InUpdate == UpdatePolling \cup {"u_target", "u_set_topic", "u_reset", "u_sub", "u_pub", "u_unsub", "u_ret"}
\* pcs of update_config from the reset of the slot to the end of the polling loop
Listening == UpdatePolling \cup {"u_sub", "u_pub"}
\* pcs of update_config after line 146 reset the slot
AfterReset == UpdatePolling \cup {"u_sub", "u_pub", "u_unsub", "u_ret"}
\* pcs of update_config after line 154 published the command
AfterPublish == UpdatePolling \cup {"u_unsub", "u_ret"}
\* pcs of wait_for_ip's polling loop (lines 171-175)
IpPolling == {"w_time", "w_loop", "w_check", "w_sleep"}
InWaitForIp == IpPolling \cup {"w_sub", "w_unsub", "w_ret"}
\* pcs of fetch_coredump outside wait_for_ip
InFetch == {"f_check", "f_http"}
\* pcs inside main's try block (lines 241-243, 316-318)
InTry == {"connect", "call"} \cup InUpdate \cup InWaitForIp \cup InFetch \cup {"u_done", "w_done"}

NoMsg == [topic |-> NoTopic, payload |-> NoPayload]

\* main is not parsing settings
CoercerOff ==
    /\ cliTarget = "hub"
    /\ settings = <<>>
    /\ settingIdx = 1
    /\ config_data = <<>>
    /\ warnings = <<>>
    /\ parsePc = "off"

\* convert_coredump.py is not running
ConverterOff ==
    /\ lines = <<>>
    /\ hex_data = <<>>
    /\ binFile = [exists |-> FALSE, data |-> <<>>]
    /\ convMsg = "none"
    /\ convPc = "off"

\* NukiConfigClient.__init__, lines 88-90; main builds the client before its try block
ClientInit ==
    /\ flow \in Flows
    /\ pc = "connect"
    /\ target = "hub"
    /\ response = None
    /\ waiting_for_topic = NoTopic
    /\ ip_address = None
    /\ connected = FALSE
    /\ subs = {}
    /\ lingering = {}
    /\ subCount = [t \in Topics |-> 0]
    /\ unsubCount = [t \in Topics |-> 0]
    /\ pubCount = [t \in ActionTopics |-> 0]
    /\ cbPc = "idle"
    /\ msg = NoMsg
    /\ elapsed = 0
    /\ calls = 0
    /\ retval = None
    /\ timedOut = FALSE
    /\ raised = "none"
    /\ interruptedAt = "none"
    /\ firstPayload = NoPayload
    /\ firstIp = NoPayload
    /\ stored = FALSE
    /\ prePublish = FALSE
    /\ fetchResult = NoResult
    /\ httpUrl = NoUrl
    /\ httpReply = NoReply
    /\ outputFile = Unwritten

\* the client, created and not yet connected
Init == ClientInit /\ CoercerOff /\ ConverterOff

(***************************************************************************)
(* The transport (paho client) as the code uses it.                        *)
(***************************************************************************)
\* client.subscribe(topic): idempotent on the subscription set
Subscribe(topic) ==
    /\ subs' = subs \cup {topic}
    /\ lingering' = lingering \ {topic}
    /\ subCount' = [subCount EXCEPT ![topic] = @ + 1]
    /\ UNCHANGED <<unsubCount, pubCount>>

\* client.unsubscribe(topic): the request is sent and not waited for, so
\* messages the broker sent before it acts on it still arrive
Unsubscribe(topic) ==
    /\ subs' = subs \ {topic}
    /\ lingering' = IF topic \in subs THEN lingering \cup {topic} ELSE lingering
    /\ unsubCount' = [unsubCount EXCEPT ![topic] = @ + 1]
    /\ UNCHANGED <<subCount, pubCount>>

\* the command sent a second time (a retry after the first publish)
Publish_Twice(t) ==
    /\ pubCount' = [pubCount EXCEPT ![t] = @ + 2]
    /\ UNCHANGED <<subs, lingering, subCount, unsubCount>>

\* client.publish(action_topic, payload)
Publish(t) ==
    /\ pubCount' = [pubCount EXCEPT ![t] = @ + 1]
    /\ UNCHANGED <<subs, lingering, subCount, unsubCount>>

(***************************************************************************)
(* on_message, on the network thread (lines 98-117).                       *)
(***************************************************************************)
\* line 102: topic.endswith("/info/nukiHubIp")
IsIpTopic(topic) == EndsWith(topic, IP_SUFFIX)

\* line 106 without the comparison of the topic
MatchesWaiting_AnyTopic(topic) == waiting_for_topic # NoTopic

\* line 106: self.waiting_for_topic and topic == self.waiting_for_topic
MatchesWaiting(topic) == waiting_for_topic # NoTopic /\ topic = waiting_for_topic

\* line 108 never recognising the sentinel
IsSentinel_Never(payload) == FALSE

\* line 108: payload == "--"
IsSentinel(payload) == payload = SENTINEL

\* the broker has acted on an unsubscribe: no message on the topic is on its way
Unsuback ==
    /\ connected
    /\ \E t \in lingering : lingering' = lingering \ {t}
    /\ UNCHANGED <<flow, pc, fields, connected, subs, subCount, unsubCount,
                   pubCount, network, callState, interruptedAt, history, fetchResult, http,
                   coercer, converter>>

\* topics on which a message can reach the client
Deliverable == subs \cup lingering

\* lines 99-109, for the message m the network thread received: decode, the IP
\* branch, the topic test and the sentinel test
Receive(m) ==
    /\ msg' = m
    /\ IF IsIpTopic(m.topic)
         THEN /\ ip_address' = Str(m.payload)
              /\ firstIp' = IF pc \in InWaitForIp /\ firstIp = NoPayload
                              THEN m.payload ELSE firstIp
              /\ UNCHANGED <<cbPc>>
         ELSE /\ cbPc' = IF MatchesWaiting(m.topic) /\ ~IsSentinel(m.payload)
                            THEN "store" ELSE "idle"
              /\ UNCHANGED <<ip_address, firstIp>>
    /\ UNCHANGED <<flow, pc, response, waiting_for_topic, connected, transport,
                   callState, interruptedAt, firstPayload, stored, prePublish,
                   fetchResult, http, coercer, converter>>

\* the network thread receives a message on a deliverable topic and calls
\* on_message with it
OnMessage ==
    /\ connected
    /\ cbPc = "idle"
    /\ \E t \in Deliverable : \E p \in PayloadsFor(t) :
          Receive([topic |-> t, payload |-> p])

\* lines 111-114: self.response = json.loads(payload), or the payload itself
OnMessageStore ==
    /\ cbPc = "store"
    /\ response' = ParseResponse(msg.payload)
    /\ cbPc' = "idle"
    /\ firstPayload' = IF pc \in Listening /\ firstPayload = NoPayload
                         THEN msg.payload ELSE firstPayload
    /\ stored' = (stored \/ pc \in AfterReset)
    /\ prePublish' = (pc \notin AfterPublish)
    /\ UNCHANGED <<flow, pc, waiting_for_topic, ip_address, connected, transport,
                   msg, callState, interruptedAt, firstIp, fetchResult, http, coercer, converter>>

(***************************************************************************)
(* The calling thread.                                                     *)
(***************************************************************************)
\* lines 158 / 173 with a deadline that never passes
TimedOut_Never(e) == FALSE

\* line 158 / line 173: time.time() - start_time > timeout
TimedOut(e) == e > TimeoutTicks

\* time.sleep(0.1): one more polling interval has passed
Slept(e) == IF e <= TimeoutTicks THEN e + 1 ELSE e

\* line 160 returning at once instead of breaking to line 163
AfterTimeout_Return == "u_ret"

\* line 160: break leaves the loop for the unsubscribe at line 163
AfterTimeout == "u_unsub"

\* connect(), lines 119-122, succeeding
ConnectOk ==
    /\ pc = "connect"
    /\ connected' = TRUE
    /\ pc' = "call"
    /\ UNCHANGED <<flow, fields, transport, network, callState, interruptedAt,
                   history, fetchResult, http, coercer, converter>>

\* connect(): client.connect raises (broker unreachable); main's finally runs
ConnectFails ==
    /\ pc = "connect"
    /\ raised' = "ConnectionError"
    /\ pc' = "finally"
    /\ UNCHANGED <<flow, fields, connected, transport, network, target, elapsed,
                   calls, retval, timedOut, interruptedAt, history, fetchResult, http,
                   coercer, converter>>

\* a call begins: the records kept per call (the transport's counters, the
\* return value, the history of the call) start afresh
BeginCall(next, tgt) ==
    /\ pc' = next
    /\ target' = tgt
    /\ calls' = calls + 1
    /\ timedOut' = FALSE
    /\ raised' = "none"
    /\ firstPayload' = NoPayload
    /\ firstIp' = NoPayload
    /\ stored' = FALSE
    /\ prePublish' = TRUE
    /\ retval' = None
    /\ subCount' = [t \in Topics |-> 0]
    /\ unsubCount' = [t \in Topics |-> 0]
    /\ pubCount' = [t \in ActionTopics |-> 0]
    /\ UNCHANGED <<flow, fields, connected, subs, lingering, network, elapsed,
                   interruptedAt, fetchResult, http, coercer, converter>>

\* main line 318: client.update_config(args.target, config_data); argparse
\* admits only the three targets
MainCallUpdate ==
    /\ pc = "call" /\ flow = "config" /\ calls = 0
    /\ \E t \in ValidTargets : BeginCall("u_target", t)

\* main line 243 and fetch_coredump line 182: client.wait_for_ip()
MainCallFetch ==
    /\ pc = "call" /\ flow = "coredump" /\ calls = 0
    /\ BeginCall("w_sub", target)

\* a library user calls update_config with any target
ApiCallUpdate ==
    /\ pc = "call" /\ flow = "api" /\ calls < MaxCalls
    /\ \E t \in ApiTargets : BeginCall("u_target", t)

\* a library user calls wait_for_ip
ApiCallWaitForIp ==
    /\ pc = "call" /\ flow = "api" /\ calls < MaxCalls
    /\ BeginCall("w_sub", target)

\* a library user is done with the client
ApiDisconnect ==
    /\ pc = "call" /\ flow = "api"
    /\ pc' = "finally"
    /\ UNCHANGED <<flow, fields, connected, transport, network, callState,
                   interruptedAt, history, fetchResult, http, coercer, converter>>

(***************************************************************************)
(* update_config (lines 128-164), one statement per step.                  *)
(***************************************************************************)
\* lines 133-143: the topics, or ValueError for an unknown target
UTarget ==
    /\ pc = "u_target"
    /\ IF target \in ValidTargets
         THEN pc' = "u_set_topic" /\ UNCHANGED raised
         ELSE pc' = "u_raised" /\ raised' = "ValueError"
    /\ UNCHANGED <<flow, fields, connected, transport, network, target, elapsed,
                   calls, retval, timedOut, interruptedAt, history, fetchResult, http,
                   coercer, converter>>

\* line 145: self.waiting_for_topic = result_topic
USetTopic ==
    /\ pc = "u_set_topic"
    /\ waiting_for_topic' = ResultTopic(target)
    /\ pc' = "u_reset"
    /\ UNCHANGED <<flow, response, ip_address, connected, transport, network,
                   callState, interruptedAt, history, fetchResult, http, coercer, converter>>

\* line 146: self.response = None
UReset ==
    /\ pc = "u_reset"
    /\ response' = None
    /\ pc' = "u_sub"
    /\ UNCHANGED <<flow, waiting_for_topic, ip_address, connected, transport,
                   network, callState, interruptedAt, history, fetchResult, http,
                   coercer, converter>>

\* line 149: self.client.subscribe(result_topic)
USubscribe ==
    /\ pc = "u_sub"
    /\ Subscribe(ResultTopic(target))
    /\ pc' = "u_pub"
    /\ UNCHANGED <<flow, fields, connected, network, callState, interruptedAt,
                   history, fetchResult, http, coercer, converter>>

\* lines 151-154: self.client.publish(action_topic, payload)
UPublish ==
    /\ pc = "u_pub"
    /\ Publish(ActionTopic(target))
    /\ pc' = "u_time"
    /\ UNCHANGED <<flow, fields, connected, network, callState, interruptedAt,
                   history, fetchResult, http, coercer, converter>>

\* line 156: start_time = time.time()
UStartTime ==
    /\ pc = "u_time"
    /\ elapsed' = 0
    /\ pc' = "u_loop"
    /\ UNCHANGED <<flow, fields, connected, transport, network, target, calls,
                   retval, timedOut, raised, interruptedAt, history, fetchResult, http,
                   coercer, converter>>

\* line 157: while self.response is None
ULoop ==
    /\ pc = "u_loop"
    /\ pc' = IF response = None THEN "u_check" ELSE "u_unsub"
    /\ UNCHANGED <<flow, fields, connected, transport, network, callState,
                   interruptedAt, history, fetchResult, http, coercer, converter>>

\* lines 158-160: if time.time() - start_time > timeout: break
UCheck ==
    /\ pc = "u_check"
    /\ IF TimedOut(elapsed)
         THEN pc' = AfterTimeout /\ timedOut' = TRUE
         ELSE pc' = "u_sleep" /\ UNCHANGED timedOut
    /\ UNCHANGED <<flow, fields, connected, transport, network, target, elapsed,
                   calls, retval, raised, interruptedAt, history, fetchResult, http,
                   coercer, converter>>

\* line 161: time.sleep(0.1)
USleep ==
    /\ pc = "u_sleep"
    /\ elapsed' = Slept(elapsed)
    /\ pc' = "u_loop"
    /\ UNCHANGED <<flow, fields, connected, transport, network, target, calls,
                   retval, timedOut, raised, interruptedAt, history, fetchResult, http,
                   coercer, converter>>

\* line 163: self.client.unsubscribe(result_topic)
UUnsubscribe ==
    /\ pc = "u_unsub"
    /\ Unsubscribe(ResultTopic(target))
    /\ pc' = "u_ret"
    /\ UNCHANGED <<flow, fields, connected, network, callState, interruptedAt,
                   history, fetchResult, http, coercer, converter>>

\* line 164: return self.response
UReturn ==
    /\ pc = "u_ret"
    /\ retval' = response
    /\ pc' = "u_done"
    /\ prePublish' = TRUE
    /\ UNCHANGED <<flow, fields, connected, transport, network, target, elapsed,
                   calls, timedOut, raised, interruptedAt, firstPayload, firstIp,
                   stored, fetchResult, http, coercer, converter>>

\* the caller goes on after update_config returned or raised: main to its
\* finally block (line 321), a library user to its next call
UAfter ==
    /\ pc \in {"u_done", "u_raised"}
    /\ pc' = IF flow = "api" THEN "call" ELSE "finally"
    /\ UNCHANGED <<flow, fields, connected, transport, network, callState,
                   interruptedAt, history, fetchResult, http, coercer, converter>>

(***************************************************************************)
(* wait_for_ip (lines 166-178).                                            *)
(***************************************************************************)
\* lines 167-169: self.client.subscribe(ip_topic)
WSubscribe ==
    /\ pc = "w_sub"
    /\ Subscribe(IpTopic)
    /\ pc' = "w_time"
    /\ UNCHANGED <<flow, fields, connected, network, callState, interruptedAt,
                   history, fetchResult, http, coercer, converter>>

\* line 171: start_time = time.time()
WStartTime ==
    /\ pc = "w_time"
    /\ elapsed' = 0
    /\ pc' = "w_loop"
    /\ UNCHANGED <<flow, fields, connected, transport, network, target, calls,
                   retval, timedOut, raised, interruptedAt, history, fetchResult, http,
                   coercer, converter>>

\* line 172: while self.ip_address is None
WLoop ==
    /\ pc = "w_loop"
    /\ pc' = IF ip_address = None THEN "w_check" ELSE "w_unsub"
    /\ UNCHANGED <<flow, fields, connected, transport, network, callState,
                   interruptedAt, history, fetchResult, http, coercer, converter>>

\* lines 173-174: if time.time() - start_time > timeout: return None
WCheck ==
    /\ pc = "w_check"
    /\ IF TimedOut(elapsed)
         THEN pc' = "w_done" /\ timedOut' = TRUE /\ retval' = None
         ELSE pc' = "w_sleep" /\ UNCHANGED <<timedOut, retval>>
    /\ UNCHANGED <<flow, fields, connected, transport, network, target, elapsed,
                   calls, raised, interruptedAt, history, fetchResult, http, coercer, converter>>

\* line 175: time.sleep(0.1)
WSleep ==
    /\ pc = "w_sleep"
    /\ elapsed' = Slept(elapsed)
    /\ pc' = "w_loop"
    /\ UNCHANGED <<flow, fields, connected, transport, network, target, calls,
                   retval, timedOut, raised, interruptedAt, history, fetchResult, http,
                   coercer, converter>>

\* line 177: self.client.unsubscribe(ip_topic)
WUnsubscribe ==
    /\ pc = "w_unsub"
    /\ Unsubscribe(IpTopic)
    /\ pc' = "w_ret"
    /\ UNCHANGED <<flow, fields, connected, network, callState, interruptedAt,
                   history, fetchResult, http, coercer, converter>>

\* line 178: return self.ip_address
WReturn ==
    /\ pc = "w_ret"
    /\ retval' = ip_address
    /\ pc' = "w_done"
    /\ UNCHANGED <<flow, fields, connected, transport, network, target, elapsed,
                   calls, timedOut, raised, interruptedAt, history, fetchResult, http,
                   coercer, converter>>

\* the caller goes on after wait_for_ip returned: fetch_coredump to line 183,
\* a library user to its next call
WAfter ==
    /\ pc = "w_done"
    /\ pc' = IF flow = "api" THEN "call" ELSE "f_check"
    /\ UNCHANGED <<flow, fields, connected, transport, network, callState,
                   interruptedAt, history, fetchResult, http, coercer, converter>>

(***************************************************************************)
(* fetch_coredump after wait_for_ip (lines 183-218) and main's cleanup.    *)
(***************************************************************************)
\* lines 210-216 without the branch for 401
FetchOutcome_No401(reply) ==
    CASE reply.code = NoStatus -> [kind |-> "Error", code |-> NoStatus]
      [] reply.code = 200 /\ reply.complete -> [kind |-> "Saved", code |-> 200]
      [] reply.code = 200 /\ ~reply.complete -> [kind |-> "Error", code |-> NoStatus]
      [] reply.code = 404 -> [kind |-> "NotFound", code |-> 404]
      [] OTHER -> [kind |-> "HTTPError", code |-> reply.code]

\* lines 198-218: which message the try block ends with, and the status in it
FetchOutcome(reply) ==
    CASE reply.code = NoStatus -> [kind |-> "Error", code |-> NoStatus]
      [] reply.code = 200 /\ reply.complete -> [kind |-> "Saved", code |-> 200]
      [] reply.code = 200 /\ ~reply.complete -> [kind |-> "Error", code |-> NoStatus]
      [] reply.code = 404 -> [kind |-> "NotFound", code |-> 404]
      [] reply.code = 401 -> [kind |-> "AuthFailed", code |-> 401]
      [] OTHER -> [kind |-> "HTTPError", code |-> reply.code]

\* lines 200-208: the file is opened and written after response.read() returned
Written(reply, file) ==
    IF reply.code = 200 /\ reply.complete
      THEN [written |-> TRUE, data |-> reply.body]
      ELSE file

\* lines 183-185: if not ip: return
FCheck ==
    /\ pc = "f_check"
    /\ IF Truthy(retval)
         THEN pc' = "f_http" /\ UNCHANGED fetchResult
         ELSE pc' = "finally" /\ fetchResult' = [kind |-> "NoIp", code |-> NoStatus]
    /\ UNCHANGED <<flow, fields, connected, transport, network, callState,
                   interruptedAt, history, http, coercer, converter>>

\* lines 187-218: the GET to the URL built from ip, and the try block around it
FHttp ==
    /\ pc = "f_http"
    /\ httpUrl' = Url(retval.text)
    /\ \E reply \in HttpReplies :
          /\ httpReply' = reply
          /\ fetchResult' = FetchOutcome(reply)
          /\ outputFile' = Written(reply, outputFile)
    /\ pc' = "finally"
    /\ UNCHANGED <<flow, fields, connected, transport, network, callState,
                   interruptedAt, history, coercer, converter>>

\* KeyboardInterrupt reaches the calling thread inside main's try block
\* (lines 244-245, 319-320): the rest of the block is skipped
Interrupt ==
    /\ flow \in {"config", "coredump"}
    /\ pc \in InTry
    /\ interruptedAt' = pc
    /\ raised' = "KeyboardInterrupt"
    /\ pc' = "finally"
    /\ UNCHANGED <<flow, fields, connected, transport, network, target, elapsed,
                   calls, retval, timedOut, history, fetchResult, http, coercer, converter>>

\* disconnect(), lines 124-126, from main's finally (lines 246-247, 321-322):
\* loop_stop joins the network thread, so a running on_message ends first;
\* nothing arrives on a closed connection
Disconnect ==
    /\ pc = "finally"
    /\ cbPc = "idle"
    /\ connected' = FALSE
    /\ lingering' = {}
    /\ pc' = "exit"
    /\ UNCHANGED <<flow, fields, subs, subCount, unsubCount, pubCount, cbPc, msg,
                   callState, interruptedAt, history, fetchResult, http, coercer, converter>>

UpdateConfig ==
    \/ UTarget \/ USetTopic \/ UReset \/ USubscribe \/ UPublish \/ UStartTime
    \/ ULoop \/ UCheck \/ USleep \/ UUnsubscribe \/ UReturn

WaitForIp ==
    \/ WSubscribe \/ WStartTime \/ WLoop \/ WCheck \/ WSleep \/ WUnsubscribe
    \/ WReturn

\* every step of the calling thread except the start of a library user's call
CallingThread ==
    \/ ConnectOk \/ ConnectFails \/ MainCallUpdate \/ MainCallFetch
    \/ UpdateConfig \/ UAfter \/ WaitForIp \/ WAfter \/ FCheck \/ FHttp
    \/ Disconnect

Next ==
    \/ CallingThread
    \/ ApiCallUpdate \/ ApiCallWaitForIp \/ ApiDisconnect
    \/ Interrupt
    \/ Unsuback \/ OnMessage \/ OnMessageStore

Spec == Init /\ [][Next]_vars

\* the interpreter keeps running both threads: the calling thread's next
\* statement and a started on_message are eventually executed
FairSpec == Spec /\ WF_vars(CallingThread) /\ WF_vars(OnMessageStore)

(***************************************************************************)
(* main's parsing of args.settings into config_data (lines 286-312).       *)
(***************************************************************************)
\* all sequences over S of length at most n
SeqsUpTo(S, n) == UNION {[1..k -> S] : k \in 0..n}

\* keys given on the command line: a lock and opener name, a lock name, a
\* hub name, a name of no table, and the empty key
KeyTexts == {<<"name">>, <<"ledEnabled">>, <<"hostname">>, <<"zz">>, <<>>}
\* arguments without '='
MalformedTexts == {<<"name">>, <<"7">>}
\* arguments as main sees them in a list of several
SettingTexts ==
    {k \o <<"=">> \o v : k \in KeyTexts, v \in {<<"7">>, <<"a", "=", "b">>}}
        \cup MalformedTexts

\* characters of the values tried one by one
ValueChars == {"0", "1", "+", "-", "_", " ", "x"}
\* the spellings of true and false, and two texts that are neither
BoolTexts ==
    {<<a, b, c, d>> : a \in {"t", "T"}, b \in {"r", "R"}, c \in {"u", "U"}, d \in {"e", "E"}}
        \cup {<<a, b, c, d, f>> : a \in {"f", "F"}, b \in {"a", "A"}, c \in {"l", "L"},
                                  d \in {"s", "S"}, f \in {"e", "E"}}
        \cup {<<"t", "r", "u", "e", " ">>, <<"y", "e", "s">>}
ValueTexts == SeqsUpTo(ValueChars, MaxValueLen) \cup BoolTexts

\* main at line 286: argparse has set target and a non-empty settings list
\* (line 273 exits on an empty one)
CoerceInit ==
    /\ ClientInit /\ flow = "config"
    /\ ConverterOff
    /\ \/ /\ cliTarget \in ValidTargets
          /\ settings \in SeqsUpTo(SettingTexts, MaxSettings) \ {<<>>}
       \/ /\ cliTarget = "lock"
          /\ settings \in {<< <<"name", "=">> \o v >> : v \in ValueTexts}
    /\ settingIdx = 1
    /\ config_data = <<>>
    /\ warnings = <<>>
    /\ parsePc = "loop"

\* config_data[key] = value
Put(map, key, value) ==
    [k \in DOMAIN map \cup {key} |-> IF k = key THEN value ELSE map[k]]

\* lines 288-308: one pass of the for loop
ParseSetting ==
    /\ parsePc = "loop"
    /\ settingIdx <= Len(settings)
    /\ LET setting == settings[settingIdx]
           kv == SplitFirst(setting, "=")
       IN IF Contains(setting, "=")
            THEN /\ warnings' = IF KeyWarned(cliTarget, kv.key)
                                  THEN Append(warnings, [kind |-> "unknown_key", text |-> kv.key])
                                  ELSE warnings
                 /\ config_data' = Put(config_data, kv.key, Coerce(kv.value))
            ELSE /\ warnings' = Append(warnings, [kind |-> "ignored", text |-> setting])
                 /\ UNCHANGED config_data
    /\ settingIdx' = settingIdx + 1
    /\ UNCHANGED <<cliTarget, settings, parsePc, client, converter>>

\* lines 310-314: exit status 1 on an empty config_data, else on to the client
ParseEnd ==
    /\ parsePc = "loop"
    /\ settingIdx > Len(settings)
    /\ parsePc' = IF DOMAIN config_data = {} THEN "exit_1" ELSE "ready"
    /\ UNCHANGED <<cliTarget, settings, settingIdx, config_data, warnings, client,
                   converter>>

CoerceNext == ParseSetting \/ ParseEnd

CoerceSpec == CoerceInit /\ [][CoerceNext]_vars

(***************************************************************************)
(* convert_coredump.py: convert_hex_to_bin (lines 4-30).                   *)
(***************************************************************************)
HexDigits ==
    Digits \cup {"a", "b", "c", "d", "e", "f", "A", "B", "C", "D", "E", "F"}

HexValue(c) ==
    CASE c \in Digits -> DigitValue(c)
      [] c \in {"a", "A"} -> 10 [] c \in {"b", "B"} -> 11 [] c \in {"c", "C"} -> 12
      [] c \in {"d", "D"} -> 13 [] c \in {"e", "E"} -> 14 [] c \in {"f", "F"} -> 15

\* bytes.fromhex: blanks are skipped before a byte, a byte is two hex digits
\* side by side; anything else raises ValueError
RECURSIVE FromHex(_, _)
FromHex(text, acc) ==
    LET t == LStrip(text)
    IN IF t = <<>> THEN [ok |-> TRUE, bytes |-> acc]
       ELSE IF Len(t) >= 2 /\ t[1] \in HexDigits /\ t[2] \in HexDigits
         THEN FromHex(SubSeq(t, 3, Len(t)),
                      Append(acc, 16 * HexValue(t[1]) + HexValue(t[2])))
         ELSE [ok |-> FALSE, bytes |-> <<>>]

\* line 17: "".join(line.strip() for line in ls[i - 1:])
RECURSIVE JoinStripped(_, _)
JoinStripped(ls, i) ==
    IF i > Len(ls) THEN <<>> ELSE Strip(ls[i]) \o JoinStripped(ls, i + 1)

\* lines 20-22: an odd-length text loses its last character
Truncated(text) ==
    IF Len(text) % 2 # 0 THEN SubSeq(text, 1, Len(text) - 1) ELSE text

\* lines 25-27 with the file opened before the text is decoded
WrittenBin_OpenFirst(decoded, file) ==
    IF decoded.ok THEN [exists |-> TRUE, data |-> decoded.bytes]
    ELSE [exists |-> TRUE, data |-> <<>>]

\* lines 25-27: the file is opened and written after bytes.fromhex returned
WrittenBin(decoded, file) ==
    IF decoded.ok THEN [exists |-> TRUE, data |-> decoded.bytes] ELSE file

\* the two header lines of a coredump file
HeaderTexts == {<<"a", "B">>, <<"z">>}
\* lines after the header, without their line ends
LineTexts ==
    {<<>>, <<"a", "B">>, <<"1">>, <<"a", "z">>, <<" ", "1", "0", " ">>,
     <<"a", "1", " ", "0", "f">>, <<"a", " ", "1">>, <<"z">>}
\* input files: fewer than three lines, or two header lines and the data
InputFiles ==
    SeqsUpTo(HeaderTexts, 2)
        \cup {h \o d : h \in [1..2 -> HeaderTexts],
                       d \in SeqsUpTo(LineTexts, MaxDataLines) \ {<<>>}}

\* convert_hex_to_bin at line 9: the input file has been read; the output
\* file is absent or holds an earlier conversion
ConvertInit ==
    /\ ClientInit /\ flow = "config"
    /\ CoercerOff
    /\ lines \in InputFiles
    /\ hex_data = <<>>
    /\ binFile \in {[exists |-> FALSE, data |-> <<>>], [exists |-> TRUE, data |-> <<0>>]}
    /\ convMsg = "none"
    /\ convPc = "check"

\* lines 9-11: if len(lines) < 3: return
CvCheckLines ==
    /\ convPc = "check"
    /\ IF Len(lines) < 3
         THEN convPc' = "returned" /\ convMsg' = "too_short"
         ELSE convPc' = "join" /\ UNCHANGED convMsg
    /\ UNCHANGED <<lines, hex_data, binFile, client, coercer>>

\* line 17
CvJoin ==
    /\ convPc = "join"
    /\ hex_data' = JoinStripped(lines, 3)
    /\ convPc' = "trim"
    /\ UNCHANGED <<lines, binFile, convMsg, client, coercer>>

\* lines 20-22
CvTruncate ==
    /\ convPc = "trim"
    /\ hex_data' = Truncated(hex_data)
    /\ convMsg' = IF Len(hex_data) % 2 # 0 THEN "truncating" ELSE convMsg
    /\ convPc' = "decode"
    /\ UNCHANGED <<lines, binFile, client, coercer>>

\* lines 24-30
CvDecode ==
    /\ convPc = "decode"
    /\ binFile' = WrittenBin(FromHex(hex_data, <<>>), binFile)
    /\ convMsg' = IF FromHex(hex_data, <<>>).ok THEN "converted" ELSE "bad_hex"
    /\ convPc' = "returned"
    /\ UNCHANGED <<lines, hex_data, client, coercer>>

ConvertNext == CvCheckLines \/ CvJoin \/ CvTruncate \/ CvDecode

ConvertSpec == ConvertInit /\ [][ConvertNext]_vars

(***************************************************************************)
(* Properties.                                                             *)
(***************************************************************************)
\* the step is on_message's first part, run for message m: no other step
\* leaves the calling thread and the subscriptions alone with on_message idle
Handles(m) ==
    /\ cbPc = "idle"
    /\ msg' = m
    /\ pc' = pc
    /\ subs' = subs
    /\ lingering' = lingering

\* the step is on_message's write of self.response
Stores == cbPc = "store" /\ cbPc' = "idle"

\* C1: update_config never resolves on a result-topic message whose payload
\* is exactly "--": handing such a message to on_message leaves the response
\* slot as it was and starts no write, the slot never holds "--", and the
\* polling loop is left only with a non-empty slot or a passed deadline.
C1_SentinelNeverResolves ==
    [][ /\ \A p \in ResultPayloads :
              (Handles([topic |-> waiting_for_topic, payload |-> p]) /\ p = SENTINEL)
                  => (response' = response /\ cbPc' = "idle")
        /\ response' # Str(SENTINEL)
        /\ (pc \in UpdatePolling /\ pc' \in InUpdate \ UpdatePolling)
               => (response # None \/ TimedOut(elapsed)) ]_vars

\* a sentinel on the awaited topic has been handled while update_config polls,
\* and the slot is still empty
C1_Witness ==
    /\ pc \in UpdatePolling
    /\ cbPc = "idle"
    /\ msg = [topic |-> waiting_for_topic, payload |-> SENTINEL]
    /\ response = None
    /\ ~stored

\* C2 (as claimed): while update_config polls, every non-sentinel message on
\* the result topic is stored into the response slot and resolves the call:
\* after on_message's write the slot holds the parsed payload (or the payload
\* itself) and is not empty, so the polling loop ends with that value.
C2_EveryNonSentinelResolves ==
    [][ (Stores /\ pc \in UpdatePolling)
            => (response' = ParseResponse(msg.payload) /\ response' # None) ]_vars

\* C3: every update_config call that returns has unsubscribed from the result
\* topic: the call made one subscribe and one unsubscribe on it, and the topic
\* is no longer subscribed, on the resolved and on the timed-out path.
C3_UnsubscribedOnReturn ==
    pc = "u_done" =>
        /\ subCount[ResultTopic(target)] = 1
        /\ unsubCount[ResultTopic(target)] = subCount[ResultTopic(target)]
        /\ ResultTopic(target) \notin subs

\* update_config has returned from its timeout branch
C3_Witness ==
    /\ pc = "u_done"
    /\ timedOut
    /\ retval = None
    /\ unsubCount[ResultTopic(target)] = 1

\* C4 (as claimed): wait_for_ip has unsubscribed from the IP topic by the time
\* it returns, on the resolved path and on the timeout path.
C4_AlwaysUnsubscribes ==
    pc = "w_done" =>
        /\ unsubCount[IpTopic] = subCount[IpTopic]
        /\ IpTopic \notin subs

C6_FirstResponseOrNone ==
    pc = "u_done" =>
        /\ timedOut => retval = None
        /\ (~timedOut /\ retval # None) =>
              /\ firstPayload # NoPayload
              /\ ParseResponse(firstPayload) # None => retval = ParseResponse(firstPayload)

\* C7 (as claimed): wait_for_ip resolves with the first payload received on
\* the announcement topic during the call: once an announcement arrived the
\* address slot keeps it, and the call returns it.
C7_FirstAnnouncementWins ==
    /\ (pc \in InWaitForIp \cup {"w_done"} /\ firstIp # NoPayload)
           => ip_address = Str(firstIp)
    /\ (pc = "w_done" /\ retval # None) => retval = Str(firstIp)

\* C8 (as claimed): the address slot is empty when a wait_for_ip call starts:
\* an address the call finds in the slot, or returns, was received on the
\* announcement topic during that call.
C8_SlotClearedAtStart ==
    /\ (pc \in InWaitForIp \ {"w_sub"} /\ ip_address # None) => firstIp # NoPayload
    /\ (pc = "w_done" /\ retval # None) => firstIp # NoPayload

\* C9: discovery and request correlation use independent slots: a message on
\* the IP topic changes neither response nor waiting_for_topic and starts no
\* write of response; a message on a result topic does not change ip_address;
\* a message whose topic is not the awaited one when on_message tests it
\* leaves response unchanged and starts no write; and the write of response
\* changes neither ip_address nor waiting_for_topic.
C9_IndependentSlots ==
    [][ /\ \A t \in Topics : \A p \in PayloadsFor(t) :
              Handles([topic |-> t, payload |-> p]) =>
                  /\ waiting_for_topic' = waiting_for_topic
                  /\ response' = response
                  /\ (t = IpTopic => cbPc' = "idle")
                  /\ (t \in ResultTopics => ip_address' = ip_address)
                  /\ (t # waiting_for_topic => cbPc' = "idle")
        /\ Stores =>
              /\ msg.topic \in ResultTopics
              /\ ip_address' = ip_address
              /\ waiting_for_topic' = waiting_for_topic ]_vars

\* an IP announcement has been handled while update_config polls with an
\* empty slot: the address is set, the response is not
C9_Witness ==
    /\ pc \in UpdatePolling
    /\ cbPc = "idle"
    /\ msg.topic = IpTopic
    /\ ip_address = Str(msg.payload)
    /\ response = None
    /\ waiting_for_topic \in ResultTopics

\* the topic of the session that polls at pc p
SessionTopic(p) == IF p \in UpdatePolling THEN ResultTopic(target) ELSE IpTopic

\* C10 (as claimed): when KeyboardInterrupt arrives while a session is
\* polling, the session's topic has been unsubscribed and the connection has
\* been disconnected when the invocation ends, on the config path and on the
\* coredump path.
C10_InterruptRunsCleanup ==
    (pc = "exit" /\ interruptedAt \in UpdatePolling \cup IpPolling) =>
        /\ ~connected
        /\ unsubCount[SessionTopic(interruptedAt)] = subCount[SessionTopic(interruptedAt)]
        /\ SessionTopic(interruptedAt) \notin subs

\* C11: in every update_config call the subscribe to the result topic comes
\* before the publish to the action topic, the command is published exactly
\* once (on the target's action topic only), and the unsubscribe comes after
\* the polling loop: before line 149 nothing was subscribed or published, at
\* line 154 the result topic is subscribed and nothing is published, in the
\* loop one subscribe and one publish were made and no unsubscribe, and at the
\* return one of each.
C11_SubscribePublishAwaitUnsubscribe ==
    /\ pc = "u_target" =>
          /\ \A t \in ActionTopics : pubCount[t] = 0
          /\ \A t \in Topics : subCount[t] = 0 /\ unsubCount[t] = 0
    /\ pc \in (InUpdate \ {"u_target"}) \cup {"u_done"} =>
          /\ \A t \in ActionTopics \ {ActionTopic(target)} : pubCount[t] = 0
          /\ \A t \in Topics \ {ResultTopic(target)} : subCount[t] = 0 /\ unsubCount[t] = 0
    /\ pc \in {"u_set_topic", "u_reset", "u_sub"} =>
          /\ subCount[ResultTopic(target)] = 0
          /\ pubCount[ActionTopic(target)] = 0
          /\ unsubCount[ResultTopic(target)] = 0
    /\ pc = "u_pub" =>
          /\ subCount[ResultTopic(target)] = 1 /\ ResultTopic(target) \in subs
          /\ pubCount[ActionTopic(target)] = 0
          /\ unsubCount[ResultTopic(target)] = 0
    /\ pc \in UpdatePolling \cup {"u_unsub"} =>
          /\ subCount[ResultTopic(target)] = 1 /\ ResultTopic(target) \in subs
          /\ pubCount[ActionTopic(target)] = 1
          /\ unsubCount[ResultTopic(target)] = 0
    /\ pc \in {"u_ret", "u_done"} =>
          /\ subCount[ResultTopic(target)] = 1
          /\ pubCount[ActionTopic(target)] = 1
          /\ unsubCount[ResultTopic(target)] = 1

\* update_config has returned a stored response after one subscribe, one
\* publish and one unsubscribe
C11_Witness ==
    /\ pc = "u_done"
    /\ retval # None
    /\ ~timedOut
    /\ pubCount[ActionTopic(target)] = 1
    /\ unsubCount[ResultTopic(target)] = 1

\* C12 (as claimed): the response slot is owned by the awaiting session:
\* on_message writes self.response only while an update_config call is in its
\* polling loop, never before the call's publish and never after the call has
\* returned.
C12_SlotOwnedByAwaitingSession ==
    [][ Stores => pc \in UpdatePolling ]_vars

\* C17 (as claimed): a value update_config returns was written to the slot
\* after that call published its command: a write made for an earlier call,
\* or between the reset of the slot (line 146) and the publish (line 154), is
\* never what line 164 returns.
C17_ReturnedValueFollowsPublish ==
    [][ (pc = "u_ret" /\ pc' = "u_done" /\ response # None) => ~prePublish ]_vars

\* C19: for hub the action and result topics are nuki/hub/configuration/action
\* and nuki/hub/configuration/commandResult, for lock and opener the same
\* below nuki/hub/lock and nuki/hub/opener: line 145 sets the waiting topic
\* to that result topic, line 149 subscribes to it and line 154 publishes on
\* that action topic. For any other target update_config raises ValueError
\* and that step subscribes to nothing, publishes nothing and leaves the
\* response slot and the waiting topic as they were.
C19_TopicsPerTargetOrValueError ==
    [][ LET prefix == IF target = "hub" THEN <<"nuki", "hub">> ELSE <<"nuki", "hub", target>>
            action == prefix \o <<"configuration", "action">>
            result == prefix \o <<"configuration", "commandResult">>
        IN /\ (pc = "u_set_topic" /\ pc' = "u_reset") => waiting_for_topic' = result
           /\ (pc = "u_sub" /\ pc' = "u_pub") =>
                  /\ subs' = subs \cup {result}
                  /\ \E t \in DOMAIN subCount : t = result /\ subCount'[t] = subCount[t] + 1
           /\ (pc = "u_pub" /\ pc' = "u_time") =>
                  \E t \in DOMAIN pubCount : t = action /\ pubCount'[t] = pubCount[t] + 1
           /\ (pc = "u_target" /\ pc' # pc /\ target \notin {"hub", "lock", "opener"}) =>
                  /\ pc' = "u_raised" /\ raised' = "ValueError"
                  /\ response' = response /\ waiting_for_topic' = waiting_for_topic
                  /\ subs' = subs
                  /\ \A t \in DOMAIN subCount : subCount'[t] = 0
                  /\ \A t \in DOMAIN pubCount : pubCount'[t] = 0
           /\ (pc' = "u_raised") => target \notin {"hub", "lock", "opener"} ]_vars

\* a second call, with an unknown target, has raised ValueError and the
\* waiting topic is still the lock's result topic that the first call set
C19_Witness ==
    /\ pc = "u_raised"
    /\ raised = "ValueError"
    /\ calls = 2
    /\ waiting_for_topic = <<"nuki", "hub", "lock", "configuration", "commandResult">>
    /\ \A t \in Topics : subCount[t] = 0
    /\ \A t \in ActionTopics : pubCount[t] = 0

\* C16: fetch_coredump ends every HTTP outcome with exactly one result: a
\* complete 200 reply is saved, the file then holding the reply's bytes; 404
\* is "not found"; 401 is "authentication failed"; any other status is the
\* generic HTTP error with that status; no reply at all, or a body that
\* cannot be read to its end, is the generic fetch error. On every outcome
\* but the first the file is not written, and no exception leaves
\* fetch_coredump: main goes on to its finally block with nothing raised.
C16_OneResultPerHttpOutcome ==
    httpUrl # NoUrl =>
        /\ pc \in {"finally", "exit"} /\ raised = "none"
        /\ fetchResult.kind \in {"Saved", "NotFound", "AuthFailed", "HTTPError", "Error"}
        /\ fetchResult.kind = "Saved" <=> (httpReply.code = 200 /\ httpReply.complete)
        /\ fetchResult.kind = "NotFound" <=> httpReply.code = 404
        /\ fetchResult.kind = "AuthFailed" <=> httpReply.code = 401
        /\ fetchResult.kind = "HTTPError" <=> httpReply.code \notin {0, 200, 401, 404}
        /\ fetchResult.kind = "HTTPError" => fetchResult.code = httpReply.code
        /\ fetchResult.kind = "Error" <=>
               (httpReply.code = 0 \/ (httpReply.code = 200 /\ ~httpReply.complete))
        /\ outputFile = IF fetchResult.kind = "Saved"
                           THEN [written |-> TRUE, data |-> httpReply.body]
                           ELSE [written |-> FALSE, data |-> <<>>]

\* the device answered 401 and fetch_coredump reported the failed
\* authentication, leaving the file unwritten
C16_Witness ==
    /\ pc = "finally"
    /\ httpUrl = Url("10.0.0.7")
    /\ httpReply.code = 401
    /\ fetchResult.kind = "AuthFailed"
    /\ ~outputFile.written

\* C18 (as claimed): on the coredump path the GET is issued only after
\* wait_for_ip returned an address, and to that address; after a timeout of
\* wait_for_ip there is no request and no output; and every payload that
\* wait_for_ip returned as the address, the empty one included, is followed
\* by the GET to that address.
C18_FetchFollowsDiscovery ==
    /\ httpUrl # NoUrl =>
          /\ flow = "coredump" /\ retval # None /\ ~timedOut
          /\ httpUrl = <<"http://", retval.text, "/get?page=coredump">>
    /\ (flow = "coredump" /\ pc \in {"finally", "exit"} /\ timedOut) =>
          (httpUrl = NoUrl /\ ~outputFile.written)
    /\ (flow = "coredump" /\ pc \in {"finally", "exit"} /\ raised = "none" /\ retval # None) =>
          httpUrl = <<"http://", retval.text, "/get?page=coredump">>

(***************************************************************************)
(* Properties of main's parsing of args.settings.                          *)
(***************************************************************************)
\* the text holds a '='
HasEq(text) == \E i \in 1..Len(text) : text[i] = "="
\* the position of its first '='
EqPos(text) ==
    CHOOSE i \in 1..Len(text) : text[i] = "=" /\ \A j \in 1..(i - 1) : text[j] # "="
\* the text before the first '=' and the text after it
EntryKey(text) == SubSeq(text, 1, EqPos(text) - 1)
EntryValue(text) == SubSeq(text, EqPos(text) + 1, Len(text))

\* positions of args.settings holding a key=value entry
Entries == {i \in 1..Len(settings) : HasEq(settings[i])}
\* the entry at i is the last one given for its key
LastForKey(i) ==
    \A j \in Entries : j > i => EntryKey(settings[j]) # EntryKey(settings[i])
\* the loop over args.settings is over
Parsed == parsePc \in {"ready", "exit_1"}
\* the loop printed the warning
Warned(kind, text) ==
    \E w \in 1..Len(warnings) : warnings[w] = [kind |-> kind, text |-> text]
\* the key is none of the target's setting names
Unlisted(key, t) == ~(\E n \in ValidKeys(t) : key = <<n>>)

\* C13 (as claimed): for hub, lock and opener alike, a key=value entry whose
\* key is not in the target's table of settings produces a warning and is
\* still put into config_data.
C13_UnknownKeyWarnedAndKept ==
    Parsed =>
        \A i \in Entries :
            Unlisted(EntryKey(settings[i]), cliTarget) =>
                /\ Warned("unknown_key", EntryKey(settings[i]))
                /\ EntryKey(settings[i]) \in DOMAIN config_data

\* C13 (amended): for lock and opener a key=value entry produces the warning
\* exactly when its key is not in the target's table, and is put into
\* config_data either way; for hub no key produces a warning, and every
\* key=value entry is put into config_data.
C13_Amended ==
    Parsed =>
        /\ \A i \in Entries : EntryKey(settings[i]) \in DOMAIN config_data
        /\ cliTarget \in {"lock", "opener"} =>
              \A i \in Entries :
                  Unlisted(EntryKey(settings[i]), cliTarget)
                      <=> Warned("unknown_key", EntryKey(settings[i]))
        /\ cliTarget = "hub" =>
              \A w \in 1..Len(warnings) : warnings[w].kind # "unknown_key"

\* for the opener, the lock's key ledEnabled was warned about and kept
C13_Witness ==
    /\ Parsed
    /\ cliTarget = "opener"
    /\ settings[1] = <<"ledEnabled", "=", "7">>
    /\ warnings[1] = [kind |-> "unknown_key", text |-> <<"ledEnabled">>]
    /\ <<"ledEnabled">> \in DOMAIN config_data

IsDigit(c) == c \in Digits
\* the number written by a sequence of decimal digits
RECURSIVE Decimal(_)
Decimal(ds) ==
    IF ds = <<>> THEN 0
    ELSE 10 * Decimal(SubSeq(ds, 1, Len(ds) - 1)) + DigitValue(ds[Len(ds)])
\* the number a text of digits, sign, underscores and blanks writes
Numeral(v) ==
    IF \E i \in 1..Len(v) : v[i] = "-"
      THEN 0 - Decimal(SelectSeq(v, IsDigit))
      ELSE Decimal(SelectSeq(v, IsDigit))

\* digits only, after an optional single leading sign
PlainIntegerText(v) ==
    \E d \in 1..Len(v) :
        /\ d \in {1, 2}
        /\ d = 2 => v[1] \in Signs
        /\ \A i \in d..Len(v) : v[i] \in Digits

\* what int() accepts: blanks, then an optional single sign, then digits with
\* single underscores allowed between two of them, then blanks
IntegerText(v) ==
    \E a \in 1..Len(v) : \E b \in a..Len(v) :
        /\ \A i \in 1..(a - 1) : v[i] \in Whitespace
        /\ \A i \in (b + 1)..Len(v) : v[i] \in Whitespace
        /\ LET d == IF v[a] \in Signs THEN a + 1 ELSE a
           IN /\ d <= b
              /\ v[d] \in Digits /\ v[b] \in Digits
              /\ \A i \in d..b : v[i] \in Digits \/ (v[i] = "_" /\ v[i - 1] # "_")

\* the text is a spelling of word in any mix of cases
CaseVariant(v, word) ==
    /\ Len(v) = Len(word)
    /\ \A i \in 1..Len(v) : LowerPiece(v[i]) = word[i]

\* the rule Integer, then Boolean, then String: r is what the rule gives for
\* the text v, where isInt tells whether v is one of the texts that become
\* Integers
CoercedAs(v, r, isInt) ==
    /\ r.type = "int" <=> isInt
    /\ isInt => r.num = Numeral(v)
    /\ (~isInt /\ CaseVariant(v, <<"t", "r", "u", "e">>)) => (r.type = "bool" /\ r.flag)
    /\ (~isInt /\ CaseVariant(v, <<"f", "a", "l", "s", "e">>)) => (r.type = "bool" /\ ~r.flag)
    /\ (/\ ~isInt
        /\ ~CaseVariant(v, <<"t", "r", "u", "e">>)
        /\ ~CaseVariant(v, <<"f", "a", "l", "s", "e">>)) => (r.type = "str" /\ r.text = v)

\* C14 (as claimed): the value is coerced by the ordered rule Integer,
\* Boolean, String: a text of digits only with an optional single leading
\* sign becomes the Integer of that value, and only such texts become
\* Integers; otherwise a case variant of true/false becomes that Boolean;
\* every other text stays a String equal to the input.
C14_IntegerBooleanString ==
    Parsed =>
        \A i \in Entries :
            LastForKey(i) =>
                CoercedAs(EntryValue(settings[i]), config_data[EntryKey(settings[i])],
                          PlainIntegerText(EntryValue(settings[i])))

\* C14 (amended): the same ordered rule, where the texts that become
\* Integers are those int() accepts: optional blanks around an optional
\* single sign and decimal digits, single underscores allowed between digits.
C14_Amended ==
    Parsed =>
        \A i \in Entries :
            LastForKey(i) =>
                CoercedAs(EntryValue(settings[i]), config_data[EntryKey(settings[i])],
                          IntegerText(EntryValue(settings[i])))

\* name=-1_0 was parsed to the Integer -10
C14_Witness ==
    /\ Parsed
    /\ settings = << <<"name", "=", "-", "1", "_", "0">> >>
    /\ config_data[<<"name">>] = IntValue(0 - 10)

\* C15: an entry without '=' is reported and dropped without aborting: when
\* the loop is over every entry was visited, config_data holds exactly the
\* keys of the entries with a '=' (the text before the first '='), each with the
\* coerced text after the first '=' of the last entry given for that key,
\* every entry without '=' was reported, nothing else was, and main exits
\* with status 1 only when no entry had a '='.
C15_MalformedDroppedOthersKept ==
    Parsed =>
        /\ settingIdx = Len(settings) + 1
        /\ DOMAIN config_data = {EntryKey(settings[i]) : i \in Entries}
        /\ \A i \in Entries :
              LastForKey(i) =>
                  config_data[EntryKey(settings[i])] = Coerce(EntryValue(settings[i]))
        /\ \A i \in 1..Len(settings) \ Entries : Warned("ignored", settings[i])
        /\ Cardinality({w \in 1..Len(warnings) : warnings[w].kind = "ignored"})
               = Cardinality(1..Len(settings) \ Entries)
        /\ parsePc = "exit_1" <=> Entries = {}

\* a malformed entry came first and the entry after it was still parsed
C15_Witness ==
    /\ parsePc = "ready"
    /\ settings = << <<"name">>, <<"zz", "=", "a", "=", "b">> >>
    /\ warnings = << [kind |-> "ignored", text |-> <<"name">>] >>
    /\ config_data[<<"zz">>] = StrValue(<<"a", "=", "b">>)

(***************************************************************************)
(* Properties of convert_hex_to_bin.                                       *)
(***************************************************************************)
IsHexDigit(c) == c \in HexDigits
\* the stripped lines after the first two, put together
RECURSIVE HexText(_)
HexText(ls) ==
    IF Len(ls) <= 2 THEN <<>>
    ELSE HexText(SubSeq(ls, 1, Len(ls) - 1)) \o Strip(ls[Len(ls)])
\* hex digits in pairs: only hex digits and blanks, and every hex digit with an
\* even number of hex digits before it has a hex digit right after it
ValidHex(t) ==
    \A i \in 1..Len(t) :
        /\ t[i] \in HexDigits \cup Whitespace
        /\ (t[i] \in HexDigits /\ Len(SelectSeq(SubSeq(t, 1, i - 1), IsHexDigit)) % 2 = 0)
               => (i < Len(t) /\ t[i + 1] \in HexDigits)
\* the bytes its pairs of hex digits write
HexBytes(t) ==
    LET ds == SelectSeq(t, IsHexDigit)
    IN [k \in 1..(Len(ds) \div 2) |-> 16 * HexValue(ds[2 * k - 1]) + HexValue(ds[2 * k])]

\* C20: convert_hex_to_bin writes the output file only on success: no step
\* before its last touches the file; when the input has fewer than 3 lines,
\* or the hex text (the stripped lines after the first two put together, less
\* its last character when its length is odd) is not valid hex, the file is
\* left as it was, absent or with its old bytes; otherwise the file holds
\* exactly the bytes that text decodes to.
C20_OutputOnlyOnSuccess ==
    [][ /\ convPc' # "returned" => binFile' = binFile
        /\ (convPc # "returned" /\ convPc' = "returned") =>
              LET text == HexText(lines)
                  used == IF Len(text) % 2 = 1 THEN SubSeq(text, 1, Len(text) - 1) ELSE text
              IN IF Len(lines) < 3 \/ ~ValidHex(used)
                   THEN binFile' = binFile
                   ELSE binFile' = [exists |-> TRUE, data |-> HexBytes(used)] ]_vars

\* the data lines aB and 1 made the odd text aB1, and the file holds the one
\* byte of aB
C20_Witness ==
    /\ convPc = "returned"
    /\ Len(lines) = 4 /\ lines[3] = <<"a", "B">> /\ lines[4] = <<"1">>
    /\ hex_data = <<"a", "B">>
    /\ binFile = [exists |-> TRUE, data |-> <<171>>]

====
